---- MODULE Spec2Model ----
(***************************************************************************)
(* Model of the compute subsystem of the visualization engine:             *)
(*   src/compute/task.rs      Task, TaskGraph, TaskExecutor                *)
(*   src/compute/executor.rs  WorkflowExecutor, WorkflowSpec               *)
(*   src/compute/module.rs    ModuleRegistry::create_instance, Module      *)
(* One action per lock-protected step of each async function.              *)
(***************************************************************************)
EXTENDS Integers, Sequences, FiniteSets, TLC

(***************************************************************************)
(* Bounds of the model                                                     *)
(***************************************************************************)
MaxModules == 2         \* module specs per generated workflow
MaxPermits == 2         \* max_concurrent is drawn from 1..MaxPermits
MaxCalls == 2           \* callers of the executors
MaxTaskId == 1          \* ids of directly added tasks are 0..MaxTaskId
MaxDeps == 1            \* dependencies of a directly added task
MaxAdds == 3            \* direct TaskExecutor::add_task calls per run

Calls == 1..MaxCalls
WorkflowIds == {"w1", "w2"}
NoId == ""

SeqsUpTo(S, n) == UNION {[1..k -> S] : k \in 0..n}

Range(s) == {s[i] : i \in 1..Len(s)}

Put(f, k, v) == [x \in DOMAIN f \cup {k} |-> IF x = k THEN v ELSE f[x]]

EmptyMap == [x \in {} |-> x]

(***************************************************************************)
(* Modules.  A module kind is what ModuleRegistry::create_instance looks   *)
(* up; "ok" and "failing" are registered constructors whose compute()      *)
(* returns Ok and Err, "unknown" is not registered.                        *)
(***************************************************************************)
Kinds == {"ok", "failing", "unknown"}

RegisteredKinds == {"ok", "failing"}

\* Module::compute of a module of this kind returns Ok (TRUE) or Err (FALSE)
ComputeSucceeds(kind) == kind = "ok"

\* ModuleRegistry::create_instance: Ok exactly for a registered constructor
create_instance_ok(module_type) == module_type \in RegisteredKinds

(***************************************************************************)
(* Workflow specifications (the argument of execute_workflow)              *)
(***************************************************************************)
ModuleSpec(id, kind, deps) ==
    [id |-> id, module_type |-> kind, dependencies |-> deps, priority |-> "Normal"]

ConnectionSpec(from, to) == [from_module |-> from, to_module |-> to]

WorkflowSpec(id, modules, connections) ==
    [id |-> id, modules |-> modules, connections |-> connections]

NoSpec == WorkflowSpec(NoId, <<>>, <<>>)

\* The generated workflows: every assignment of kinds to 0..MaxModules
\* modules, in each of these shapes of ids, dependencies and connections.
Shapes == {"independent", "chain", "cycle", "duplicate", "dangling", "bad_connection"}

ShapeId(shape, i) == IF shape = "duplicate" THEN 1 ELSE i

ShapeDeps(shape, i, n) ==
    CASE shape = "chain" -> IF i = 1 THEN <<>> ELSE <<i - 1>>
      [] shape = "cycle" -> <<(i % n) + 1>>
      [] shape = "dangling" -> <<n + 1>>
      [] OTHER -> <<>>

ShapeConnections(shape, n) ==
    CASE shape = "chain" -> [i \in 1..(n - 1) |-> ConnectionSpec(i, i + 1)]
      [] shape = "bad_connection" -> <<ConnectionSpec(1, n + 1)>>
      [] OTHER -> <<>>

ShapedSpec(shape, kinds) ==
    WorkflowSpec("w1",
        [i \in 1..Len(kinds) |->
            ModuleSpec(ShapeId(shape, i), kinds[i], ShapeDeps(shape, i, Len(kinds)))],
        ShapeConnections(shape, Len(kinds)))

GeneratedSpecs ==
    {ShapedSpec(shape, kinds) : shape \in Shapes, kinds \in SeqsUpTo(Kinds, MaxModules)}

\* the seed scenarios S2 (chain), S3 (diamond), S4 (failing middle node)
ChainSpec ==
    WorkflowSpec("w1", << ModuleSpec(1, "ok", <<>>), ModuleSpec(2, "ok", <<1>>),
                          ModuleSpec(3, "ok", <<2>>) >>, <<>>)

DiamondSpec ==
    WorkflowSpec("w1", << ModuleSpec(1, "ok", <<>>), ModuleSpec(2, "ok", <<1>>),
                          ModuleSpec(3, "ok", <<1>>), ModuleSpec(4, "ok", <<2, 3>>) >>, <<>>)

FailingChainSpec ==
    WorkflowSpec("w1", << ModuleSpec(1, "ok", <<>>), ModuleSpec(2, "failing", <<1>>),
                          ModuleSpec(3, "ok", <<2>>) >>, <<>>)

WorkflowSpecs == GeneratedSpecs \cup {ChainSpec, DiamondSpec, FailingChainSpec}

\* the workflows of callers sharing one WorkflowExecutor: 1..MaxModules
\* independent modules of one kind, registered or not
SharedSpecs ==
    {WorkflowSpec(id, [i \in 1..n |-> ModuleSpec(i, kind, <<>>)], <<>>) :
        id \in WorkflowIds, n \in 1..MaxModules, kind \in {"ok", "unknown"}}

SpecIds(s) == {s.modules[i].id : i \in 1..Len(s.modules)}

(***************************************************************************)
(* State                                                                   *)
(***************************************************************************)
VARIABLES
    max_concurrent,     \* TaskExecutor::new(max_concurrent)
    tasks,              \* TaskGraph.tasks: TaskId -> Task
    completed,          \* TaskGraph.completed
    ready_queue,        \* TaskGraph.ready_queue
    permits,            \* available permits of TaskGraph.semaphore
    results,            \* TaskExecutor.results: TaskId -> TaskResult
    next_id,            \* NEXT_ID of TaskId::default
    workers,            \* the spawned worker closures of execute_all, in spawn order
    active_workflows,   \* WorkflowExecutor.active_workflows: id -> WorkflowState
    pc,                 \* per caller: position in execute_workflow / execute_all
    spec,               \* per caller: the workflow argument
    timeout_duration,   \* per caller: "None" or "Some"
    build_i,            \* per caller: index of the module loop of build_workflow_tasks
    task_map,           \* per caller: local task_map, module id -> TaskId
    task_dependencies,  \* per caller: local task_dependencies, TaskId -> module ids
    handles,            \* per caller: local handles of execute_all (indices into workers)
    ret,                \* per caller: the value returned by the call
    adds                \* number of direct TaskExecutor::add_task calls made

graph_vars == <<tasks, completed, ready_queue, permits, results, next_id, workers>>

call_vars == <<pc, spec, timeout_duration, build_i, task_map, task_dependencies, handles, ret>>

compute_vars == <<max_concurrent, graph_vars, active_workflows, call_vars, adds>>

VARIABLES
    allocations,        \* SharedAllocator.allocations: offset -> size
    free_blocks,        \* SharedAllocator.free_blocks, in Vec order: <<offset, size>>
    objects,            \* SharedArena.objects: ObjectId -> SharedObject
    allocator_lock,     \* thread holding SharedArena.allocator, NoThread when free
    objects_lock,       \* thread holding SharedArena.objects for writing, NoThread when free
    threads             \* per thread: position in a SharedArena method, its locals and result

arena_vars == <<allocations, free_blocks, objects, allocator_lock, objects_lock, threads>>

VARIABLES
    registry,           \* ObjectRegistry.objects: ObjectId -> object
    registry_ret        \* the value returned by the last ObjectRegistry call

registry_vars == <<registry, registry_ret>>

VARIABLES
    local_queues,       \* MessageRouter.local_queues: module id -> MessageQueue (index into queues)
    queues,             \* every MessageQueue created by register_module, in creation order
    mpi_channel,        \* MessageRouter.mpi_channel is Some
    rank,               \* MpiMessageChannel.rank
    mpi_sent,           \* the sends made on the transport, in order: <<rank, envelope>>
    mpi_pending,        \* the envelopes other ranks sent to this rank, not yet received
    received,           \* per module: the envelopes receive_message returned to it, in order
    routed,             \* per module: the envelopes route_message sent to a queue of it, in order
    route_ret,          \* the value returned by the last route_message call
    messages            \* number of MessageId::new() calls made

router_vars == <<local_queues, queues, mpi_channel, rank, mpi_sent, mpi_pending, received,
                 routed, route_ret, messages>>

VARIABLES
    popped,             \* the ids TaskGraph::get_ready_task returned to a direct caller, in order
    marked              \* the ids a direct caller passed to TaskGraph::mark_completed, in order

graph_call_vars == <<popped, marked>>

VARIABLES
    module_status,      \* VistleModule.status
    module_stats,       \* VistleModule.stats
    stats_lock,         \* caller holding VistleModule.stats for writing, NoCaller when free
    executions          \* per caller of VistleModule::execute: position, compute result, return

module_vars == <<module_status, module_stats, stats_lock, executions>>

VARIABLES
    parameters,         \* ParameterSet.parameters: name -> Parameter
    set_value_ret       \* the value returned by the last ParameterSet::set_value call

parameter_vars == <<parameters, set_value_ret>>

VARIABLES
    collective,         \* the DistributedContext method every rank calls
    root,               \* the root argument of reduce
    local_value,        \* per rank: the local_value argument of reduce
    channels,           \* per <<source, dest>>: the MPI messages sent and not yet received
    procs               \* per rank: position in the method, its locals and its result

mpi_vars == <<collective, root, local_value, channels, procs>>

\* the state of the parts that neither the executors nor src/core touch
detached_vars == <<graph_call_vars, parameter_vars, mpi_vars>>

\* the state outside the task and workflow executors
core_vars == <<arena_vars, registry_vars, router_vars, detached_vars, module_vars>>

vars == <<compute_vars, core_vars>>

(***************************************************************************)
(* Task and TaskGraph (src/compute/task.rs)                                *)
(***************************************************************************)
\* Task::new(id, module, context).with_dependencies(deps).with_priority(p)
Task(id, kind, module_id, deps, priority) ==
    [id |-> id, module |-> kind, module_id |-> module_id, dependencies |-> deps,
     dependents |-> <<>>, status |-> "Pending", priority |-> priority]

dependencies_satisfied(task, completed_tasks) ==
    \A i \in 1..Len(task.dependencies) : task.dependencies[i] \in completed_tasks

\* the ready queue after TaskGraph::add_task(task)
add_task_queue(task) ==
    IF dependencies_satisfied(task, completed)
    THEN Append(ready_queue, task.id)
    ELSE ready_queue

\* TaskGraph::add_task
add_task(task) ==
    /\ ready_queue' = add_task_queue(task)
    /\ tasks' = Put(tasks, task.id, task)

\* the loop of mark_completed over the dependents of the completed task
RECURSIVE enqueue_dependents(_, _, _)
enqueue_dependents(dependents, queue, done) ==
    IF dependents = <<>> THEN queue
    ELSE LET d == Head(dependents)
             q == IF /\ d \in DOMAIN tasks
                     /\ dependencies_satisfied(tasks[d], done)
                     /\ d \notin Range(queue)
                  THEN Append(queue, d)
                  ELSE queue
         IN enqueue_dependents(Tail(dependents), q, done)

\* faulty variant of mark_completed: the dependents are examined even when the id
\* was in the completion set already
mark_completed_again(task_id) ==
    /\ completed' = completed \cup {task_id}
    /\ ready_queue' =
         enqueue_dependents(
             IF task_id \in DOMAIN tasks THEN tasks[task_id].dependents ELSE <<>>,
             ready_queue, completed \cup {task_id})

\* TaskGraph::mark_completed
mark_completed(task_id) ==
    /\ completed' = completed \cup {task_id}
    /\ ready_queue' =
         IF task_id \in completed THEN ready_queue
         ELSE enqueue_dependents(
                 IF task_id \in DOMAIN tasks THEN tasks[task_id].dependents ELSE <<>>,
                 ready_queue, completed \cup {task_id})

\* TaskGraph::is_complete
is_complete == Cardinality(DOMAIN tasks) = Cardinality(completed)

(***************************************************************************)
(* TaskExecutor::execute_all (src/compute/task.rs)                         *)
(***************************************************************************)
TaskResult(task_id, success, error) ==
    [task_id |-> task_id, success |-> success, error |-> error]

NoReturn == [kind |-> "None", success |-> FALSE, task_results |-> <<>>, error |-> "None"]

Ok(success, task_results) ==
    [kind |-> "Ok", success |-> success, task_results |-> task_results, error |-> "None"]

Err(error) ==
    [kind |-> "Err", success |-> FALSE, task_results |-> <<>>, error |-> error]

\* positions of a caller inside the loop and the join of execute_all
ExecPcs == {"acquire", "pop", "join"}

\* a worker is live from tokio::spawn until it has dropped its permit
Live(w) == workers[w].pc # "done"

LiveWorkers == {w \in 1..Len(workers) : Live(w)}

\* faulty variant of AcquirePermit: the loop goes on without waiting for a permit
AcquirePermitNoWait(c) ==
    /\ pc[c] = "acquire"
    /\ pc' = [pc EXCEPT ![c] = "pop"]
    /\ UNCHANGED <<core_vars, max_concurrent, tasks, completed, ready_queue, permits, results,
                   next_id, workers, active_workflows, spec, timeout_duration, build_i,
                   task_map, task_dependencies, handles, ret, adds>>

\* semaphore.acquire().await at the head of the loop
AcquirePermit(c) ==
    /\ pc[c] = "acquire"
    /\ permits > 0
    /\ permits' = permits - 1
    /\ pc' = [pc EXCEPT ![c] = "pop"]
    /\ UNCHANGED <<core_vars, max_concurrent, tasks, completed, ready_queue, results, next_id,
                   workers, active_workflows, spec, timeout_duration, build_i,
                   task_map, task_dependencies, handles, ret, adds>>

\* faulty variant of SpawnWorker: the popped task is dropped, no worker is spawned
SpawnWorkerLost(c) ==
    /\ pc[c] = "pop"
    /\ ready_queue # <<>>
    /\ ready_queue' = Tail(ready_queue)
    /\ permits' = permits + 1
    /\ pc' = [pc EXCEPT ![c] = "acquire"]
    /\ UNCHANGED <<core_vars, max_concurrent, tasks, completed, results, next_id, workers,
                   active_workflows, spec, timeout_duration, build_i, task_map,
                   task_dependencies, handles, ret, adds>>

\* graph.get_ready_task() returned Some(id): spawn the worker, loop
SpawnWorker(c) ==
    /\ pc[c] = "pop"
    /\ ready_queue # <<>>
    /\ ready_queue' = Tail(ready_queue)
    /\ workers' = Append(workers, [task_id |-> Head(ready_queue), pc |-> "get_task",
                                   success |-> FALSE, error |-> "None"])
    /\ handles' = [handles EXCEPT ![c] = Append(@, Len(workers) + 1)]
    /\ pc' = [pc EXCEPT ![c] = "acquire"]
    /\ UNCHANGED <<core_vars, max_concurrent, tasks, completed, permits, results, next_id,
                   active_workflows, spec, timeout_duration, build_i, task_map,
                   task_dependencies, ret, adds>>

\* graph.get_ready_task() returned None: break, dropping the permit just acquired
BreakLoop(c) ==
    /\ pc[c] = "pop"
    /\ ready_queue = <<>>
    /\ permits' = permits + 1
    /\ pc' = [pc EXCEPT ![c] = "join"]
    /\ UNCHANGED <<core_vars, max_concurrent, tasks, completed, ready_queue, results, next_id,
                   workers, active_workflows, spec, timeout_duration, build_i,
                   task_map, task_dependencies, handles, ret, adds>>

\* the Vec<TaskResult> that join_all(handles) yields, in spawn order
JoinedResults(c) ==
    [i \in 1..Len(handles[c]) |->
        TaskResult(workers[handles[c][i]].task_id, workers[handles[c][i]].success,
                   workers[handles[c][i]].error)]

AllJoined(c) == \A i \in 1..Len(handles[c]) : ~Live(handles[c][i])

\* worker: read the task from the graph and build the (placeholder) result
WorkerGetTask(w) ==
    /\ w \in 1..Len(workers)
    /\ workers[w].pc = "get_task"
    /\ workers' = [workers EXCEPT ![w] =
          IF workers[w].task_id \in DOMAIN tasks
          THEN [@ EXCEPT !.pc = "store", !.success = TRUE, !.error = "None"]
          ELSE [@ EXCEPT !.pc = "store", !.success = FALSE, !.error = "Task not found"]]
    /\ UNCHANGED <<core_vars, max_concurrent, tasks, completed, ready_queue, permits, results,
                   next_id, active_workflows, call_vars, adds>>

\* worker: results.insert(task_id, result)
WorkerStoreResult(w) ==
    /\ w \in 1..Len(workers)
    /\ workers[w].pc = "store"
    /\ results' = Put(results, workers[w].task_id,
                      TaskResult(workers[w].task_id, workers[w].success, workers[w].error))
    /\ workers' = [workers EXCEPT ![w].pc = "mark"]
    /\ UNCHANGED <<core_vars, max_concurrent, tasks, completed, ready_queue, permits, next_id,
                   active_workflows, call_vars, adds>>

\* worker: graph.mark_completed(task_id)
WorkerMarkCompleted(w) ==
    /\ w \in 1..Len(workers)
    /\ workers[w].pc = "mark"
    /\ mark_completed(workers[w].task_id)
    /\ workers' = [workers EXCEPT ![w].pc = "release"]
    /\ UNCHANGED <<core_vars, max_concurrent, tasks, permits, results, next_id,
                   active_workflows, call_vars, adds>>

\* worker: drop(permit)
WorkerReleasePermit(w) ==
    /\ w \in 1..Len(workers)
    /\ workers[w].pc = "release"
    /\ permits' = permits + 1
    /\ workers' = [workers EXCEPT ![w].pc = "done"]
    /\ UNCHANGED <<core_vars, max_concurrent, tasks, completed, ready_queue, results, next_id,
                   active_workflows, call_vars, adds>>

\* join_all(handles) of a direct execute_all call: Ok(results)
JoinDirect(c) ==
    /\ pc[c] = "join"
    /\ spec[c] = NoSpec
    /\ AllJoined(c)
    /\ pc' = [pc EXCEPT ![c] = "ok"]
    /\ ret' = [ret EXCEPT ![c] = Ok(TRUE, JoinedResults(c))]
    /\ UNCHANGED <<core_vars, max_concurrent, graph_vars, active_workflows, spec, timeout_duration,
                   build_i, task_map, task_dependencies, handles, adds>>

\* enum TaskPriority { Low = 0, Normal = 1, High = 2, Critical = 3 }, derived Ord
TaskPriority == [Low |-> 0, Normal |-> 1, High |-> 2, Critical |-> 3]

\* the priorities given to directly added tasks
InputPriorities == {"Normal", "High"}

\* TaskExecutor::add_task called directly with
\* Task::new(id, ..).with_dependencies(deps).with_priority(priority)
DirectAddTask(id, deps, priority) ==
    /\ adds < MaxAdds
    /\ adds' = adds + 1
    /\ add_task(Task(id, "ok", 1, deps, priority))
    /\ UNCHANGED <<core_vars, max_concurrent, completed, permits, results, next_id, workers,
                   active_workflows, call_vars>>

\* TaskExecutor::execute_all called directly
DirectExecuteAll(c) ==
    /\ pc[c] = "idle"
    /\ pc' = [pc EXCEPT ![c] = "acquire"]
    /\ UNCHANGED <<core_vars, max_concurrent, graph_vars, active_workflows, spec, timeout_duration,
                   build_i, task_map, task_dependencies, handles, ret, adds>>

(***************************************************************************)
(* WorkflowExecutor (src/compute/executor.rs)                              *)
(***************************************************************************)
WorkflowState(s, status, tasks_completed) ==
    [id |-> s.id, spec |-> s, status |-> status,
     tasks_completed |-> tasks_completed, tasks_total |-> 0]

TerminalStatuses == {"Completed", "Failed", "Cancelled"}

\* build_workflow_tasks holds the read lock of active_workflows while it runs
ReadLocked == \E c \in Calls : pc[c] = "build"

\* execute_workflow, up to the insertion of the WorkflowState (status Running)
execute_workflow(c, s, t) ==
    /\ pc[c] = "idle"
    /\ ~ReadLocked
    /\ active_workflows' = Put(active_workflows, s.id, WorkflowState(s, "Running", 0))
    /\ spec' = [spec EXCEPT ![c] = s]
    /\ timeout_duration' = [timeout_duration EXCEPT ![c] = t]
    /\ build_i' = [build_i EXCEPT ![c] = 1]
    /\ pc' = [pc EXCEPT ![c] = "build"]
    /\ UNCHANGED <<core_vars, max_concurrent, graph_vars, task_map, task_dependencies, handles,
                   ret, adds>>

\* build_workflow_tasks, one pass of the module loop: the task is built
\* without dependencies (TaskBuilder::depends_on is never called)
BuildTask(c) ==
    /\ pc[c] = "build"
    /\ build_i[c] <= Len(spec[c].modules)
    /\ LET m == spec[c].modules[build_i[c]] IN
        /\ create_instance_ok(m.module_type)
        /\ add_task(Task(next_id, m.module_type, m.id, <<>>, m.priority))
        /\ task_map' = [task_map EXCEPT ![c] = Put(@, m.id, next_id)]
        /\ task_dependencies' = [task_dependencies EXCEPT ![c] = Put(@, next_id, m.dependencies)]
    /\ next_id' = next_id + 1
    /\ build_i' = [build_i EXCEPT ![c] = @ + 1]
    /\ UNCHANGED <<core_vars, max_concurrent, completed, permits, results, workers,
                   active_workflows, pc, spec, timeout_duration, handles, ret, adds>>

\* build_workflow_tasks: create_instance fails, the error is returned with `?`
BuildFails(c) ==
    /\ pc[c] = "build"
    /\ build_i[c] <= Len(spec[c].modules)
    /\ ~create_instance_ok(spec[c].modules[build_i[c]].module_type)
    /\ pc' = [pc EXCEPT ![c] = "err"]
    /\ ret' = [ret EXCEPT ![c] = Err("Module not found")]
    /\ UNCHANGED <<core_vars, max_concurrent, graph_vars, active_workflows, spec, timeout_duration,
                   build_i, task_map, task_dependencies, handles, adds>>

\* build_workflow_tasks: the dependency loop computes dep_task_ids and drops
\* them; then execute_workflow enters execute_all
BuildDependencies(c) ==
    /\ pc[c] = "build"
    /\ build_i[c] > Len(spec[c].modules)
    /\ pc' = [pc EXCEPT ![c] = "acquire"]
    /\ UNCHANGED <<core_vars, max_concurrent, graph_vars, active_workflows, spec, timeout_duration,
                   build_i, task_map, task_dependencies, handles, ret, adds>>

\* join_all(handles) inside execute_workflow
JoinWorkflow(c) ==
    /\ pc[c] = "join"
    /\ spec[c] # NoSpec
    /\ AllJoined(c)
    /\ pc' = [pc EXCEPT ![c] = "process"]
    /\ UNCHANGED <<core_vars, max_concurrent, graph_vars, active_workflows, spec, timeout_duration,
                   build_i, task_map, task_dependencies, handles, ret, adds>>

\* the execute_all future is pending: it waits for a permit, for the graph
\* lock held by a worker, or for unfinished workers
Pending(c) ==
    \/ pc[c] = "acquire" /\ permits = 0
    \/ pc[c] = "pop" /\ LiveWorkers # {}
    \/ pc[c] = "join" /\ ~AllJoined(c)

\* timeout(duration, execute_all()) elapses: the future is dropped (with the
\* permit it holds) and the error is returned; the spawned workers run on
Timeout(c) ==
    /\ timeout_duration[c] = "Some"
    /\ spec[c] # NoSpec
    /\ Pending(c)
    /\ permits' = IF pc[c] = "pop" THEN permits + 1 ELSE permits
    /\ pc' = [pc EXCEPT ![c] = "err"]
    /\ ret' = [ret EXCEPT ![c] = Err("Workflow execution timeout")]
    /\ UNCHANGED <<core_vars, max_concurrent, tasks, completed, ready_queue, results, next_id,
                   workers, active_workflows, spec, timeout_duration, build_i,
                   task_map, task_dependencies, handles, adds>>

\* success = results.iter().all(|r| r.success)
AllSucceeded(task_results) ==
    \A i \in 1..Len(task_results) : task_results[i].success

\* faulty variant of FinalStatus: the two branches swapped
FinalStatusSwapped(success) == IF success THEN "Failed" ELSE "Completed"

\* the status execute_workflow records for the outcome
FinalStatus(success) == IF success THEN "Completed" ELSE "Failed"

\* execute_workflow, from "Process results" to the return of the WorkflowResult
Finish(c) ==
    /\ pc[c] = "process"
    /\ ~ReadLocked
    /\ LET task_results == JoinedResults(c)
           success == AllSucceeded(task_results)
       IN /\ active_workflows' =
                IF spec[c].id \in DOMAIN active_workflows
                THEN [active_workflows EXCEPT ![spec[c].id] =
                        [@ EXCEPT !.status = FinalStatus(success),
                                  !.tasks_completed = Len(task_results)]]
                ELSE active_workflows
          /\ ret' = [ret EXCEPT ![c] = Ok(success, task_results)]
    /\ pc' = [pc EXCEPT ![c] = "ok"]
    /\ UNCHANGED <<core_vars, max_concurrent, graph_vars, spec, timeout_duration, build_i,
                   task_map, task_dependencies, handles, adds>>

\* the status cancel_workflow writes
CancelledStatus(old) == "Cancelled"

\* WorkflowExecutor::cancel_workflow: always Ok(())
cancel_workflow(workflow_id) ==
    /\ ~ReadLocked
    /\ active_workflows' =
         IF workflow_id \in DOMAIN active_workflows
         THEN [active_workflows EXCEPT ![workflow_id].status = CancelledStatus(@)]
         ELSE active_workflows
    /\ UNCHANGED <<core_vars, max_concurrent, graph_vars, call_vars, adds>>

(***************************************************************************)
(* A TaskGraph used directly (src/compute/task.rs)                         *)
(***************************************************************************)
\* the mark_completed calls of a direct caller
MaxMarks == 2

\* the two TaskIds a direct caller uses
GraphIds == {0, 1}

\* the dependencies and the dependents a direct caller gives a task
GraphLinks == {<<>>, <<0>>, <<1>>}

\* a Task whose pub field dependents the caller has set
GraphTask(id, deps, dependents) ==
    [Task(id, "ok", 1, deps, "Normal") EXCEPT !.dependents = dependents]

\* TaskGraph::add_task called on the graph
GraphAddTask(task) ==
    /\ adds < MaxAdds
    /\ adds' = adds + 1
    /\ add_task(task)
    /\ UNCHANGED <<core_vars, max_concurrent, completed, permits, results, next_id, workers,
                   active_workflows, call_vars>>

\* TaskGraph::mark_completed called on the graph
GraphMarkCompleted(task_id) ==
    /\ Len(marked) < MaxMarks
    /\ marked' = Append(marked, task_id)
    /\ mark_completed(task_id)
    /\ UNCHANGED <<arena_vars, registry_vars, router_vars, module_vars, parameter_vars, mpi_vars, popped,
                   max_concurrent, tasks, permits, results, next_id, workers,
                   active_workflows, call_vars, adds>>

\* TaskGraph::get_ready_task called on the graph and returning Some(id)
GraphGetReadyTask ==
    /\ ready_queue # <<>>
    /\ ready_queue' = Tail(ready_queue)
    /\ popped' = Append(popped, Head(ready_queue))
    /\ UNCHANGED <<arena_vars, registry_vars, router_vars, module_vars, parameter_vars, mpi_vars, marked,
                   max_concurrent, tasks, completed, permits, results, next_id, workers,
                   active_workflows, call_vars, adds>>

GraphCallInit ==
    /\ popped = <<>>
    /\ marked = <<>>

(***************************************************************************)
(* SharedAllocator and SharedArena (src/core/shm.rs)                       *)
(***************************************************************************)
\* ShmConfig.size, the capacity of the arena in bytes
ArenaSize == 4

\* the longest serialized object
MaxDataLen == 2

\* the two ObjectIds in use
ObjectIds == {1, 2}

DataLens == 1..MaxDataLen

\* the two threads sharing the Arc<SharedArena>
Threads == {1, 2}

NoThread == 0

RemoveAt(s, i) == SubSeq(s, 1, i - 1) \o SubSeq(s, i + 1, Len(s))

\* faulty variant of FirstFit: a block of exactly the requested size does not fit
FirstFitStrict(blocks, size) ==
    IF \E i \in 1..Len(blocks) : blocks[i][2] > size
    THEN CHOOSE i \in 1..Len(blocks) :
             /\ blocks[i][2] > size
             /\ \A j \in 1..(i - 1) : ~(blocks[j][2] > size)
    ELSE 0

\* the loop of SharedAllocator::allocate: the index of the first block, in
\* Vec order, with block_size >= size; 0 when the loop runs to its end
FirstFit(blocks, size) ==
    IF \E i \in 1..Len(blocks) : blocks[i][2] >= size
    THEN CHOOSE i \in 1..Len(blocks) :
             /\ blocks[i][2] >= size
             /\ \A j \in 1..(i - 1) : ~(blocks[j][2] >= size)
    ELSE 0

\* faulty variant of allocate_free_blocks: the leftover space is not added back
allocate_free_blocks_no_leftover(blocks, size) ==
    RemoveAt(blocks, FirstFit(blocks, size))

\* free_blocks after a successful SharedAllocator::allocate(size)
allocate_free_blocks(blocks, size) ==
    LET i == FirstFit(blocks, size)
        offset == blocks[i][1]
        block_size == blocks[i][2]
        removed == RemoveAt(blocks, i)
    IN  IF block_size > size
        THEN Append(removed, <<offset + size, block_size - size>>)
        ELSE removed

\* the offset returned by a successful SharedAllocator::allocate(size)
allocate_offset(blocks, size) == blocks[FirstFit(blocks, size)][1]

\* insertion of a block behind the blocks of a sorted Vec whose offset is not larger
InsertByOffset(sorted, block) ==
    LET n == Cardinality({i \in 1..Len(sorted) : sorted[i][1] <= block[1]})
    IN  SubSeq(sorted, 1, n) \o <<block>> \o SubSeq(sorted, n + 1, Len(sorted))

RECURSIVE sort_by_offset(_)
\* free_blocks.sort_by_key(|&(offset, _)| offset), a stable sort
sort_by_offset(blocks) ==
    IF blocks = <<>>
    THEN <<>>
    ELSE InsertByOffset(sort_by_offset(SubSeq(blocks, 1, Len(blocks) - 1)),
                        blocks[Len(blocks)])

RECURSIVE merge_blocks(_, _)
\* the while loop of coalesce_free_blocks, from index i (counted from 1)
merge_blocks(blocks, i) ==
    IF i + 1 > Len(blocks)
    THEN blocks
    ELSE IF blocks[i][1] + blocks[i][2] = blocks[i + 1][1]
         THEN merge_blocks([RemoveAt(blocks, i + 1) EXCEPT
                               ![i] = <<blocks[i][1], blocks[i][2] + blocks[i + 1][2]>>], i)
         ELSE merge_blocks(blocks, i + 1)

\* faulty variant of coalesce_free_blocks: the blocks are sorted but not merged
coalesce_free_blocks_sort_only(blocks) == sort_by_offset(blocks)

\* SharedAllocator::coalesce_free_blocks
coalesce_free_blocks(blocks) == merge_blocks(sort_by_offset(blocks), 1)

\* allocations after allocations.remove(&offset)
RemoveKey(f, k) == [x \in DOMAIN f \ {k} |-> f[x]]

RECURSIVE SumSizes(_)
SumSizes(f) ==
    IF DOMAIN f = {}
    THEN 0
    ELSE LET k == CHOOSE x \in DOMAIN f : TRUE
         IN  f[k] + SumSizes(RemoveKey(f, k))

\* SharedAllocator::used
used == SumSizes(allocations)

\* SharedAllocator::free
free == ArenaSize - used

\* struct SharedObject
SharedObject(id, offset, size) == [id |-> id, offset |-> offset, size |-> size]

\* struct ShmStats
ShmStats(total_size, used_size, free_size, object_count) ==
    [total_size |-> total_size, used_size |-> used_size, free_size |-> free_size,
     object_count |-> object_count]

\* a thread that is in no SharedArena method, with the result of its last call
IdleThread(result) == [pc |-> "idle", id |-> 0, offset |-> 0, size |-> 0, ret |-> result]

\* the value a SharedArena method returns: Result<ObjectId, Error>,
\* Result<bool, Error> or ShmStats, the fields that do not apply left at a default
ArenaReturn(kind, error, id, removed, stats_value) ==
    [kind |-> kind, error |-> error, id |-> id, removed |-> removed, stats |-> stats_value]

NoArenaReturn == ArenaReturn("None", "None", 0, FALSE, ShmStats(0, 0, 0, 0))

InsufficientSpace ==
    [NoArenaReturn EXCEPT !.kind = "Err",
                          !.error = "SharedMemory: Insufficient shared memory space"]

InvalidDeallocation ==
    [NoArenaReturn EXCEPT !.kind = "Err", !.error = "SharedMemory: Invalid deallocation"]

OkObjectId(id) == [NoArenaReturn EXCEPT !.kind = "Ok(ObjectId)", !.id = id]

OkBool(removed) == [NoArenaReturn EXCEPT !.kind = "Ok(bool)", !.removed = removed]

StatsReturn(stats_value) == [NoArenaReturn EXCEPT !.kind = "ShmStats", !.stats = stats_value]

\* store_object up to the allocation: self.allocator.lock(), allocate(data.len())?
\* and the copy into the arena; data_len is the length of the serialized object
store_object(t, id, data_len) ==
    /\ threads[t].pc = "idle"
    /\ allocator_lock = NoThread
    /\ IF FirstFit(free_blocks, data_len) = 0
       THEN /\ threads' = [threads EXCEPT ![t] = IdleThread(InsufficientSpace)]
            /\ UNCHANGED <<allocations, free_blocks, allocator_lock>>
       ELSE /\ free_blocks' = allocate_free_blocks(free_blocks, data_len)
            /\ allocations' = Put(allocations, allocate_offset(free_blocks, data_len), data_len)
            /\ allocator_lock' = t
            /\ threads' = [threads EXCEPT ![t] =
                   [pc |-> "store_insert", id |-> id, size |-> data_len, ret |-> NoArenaReturn,
                    offset |-> allocate_offset(free_blocks, data_len)]]
    /\ UNCHANGED <<objects, objects_lock, compute_vars, detached_vars, module_vars, registry_vars, router_vars>>

\* store_object from self.objects.write().insert(id, shared_obj) to its return,
\* where the allocator guard is dropped
store_insert(t) ==
    /\ threads[t].pc = "store_insert"
    /\ objects_lock = NoThread
    /\ objects' = Put(objects, threads[t].id,
                      SharedObject(threads[t].id, threads[t].offset, threads[t].size))
    /\ allocator_lock' = NoThread
    /\ threads' = [threads EXCEPT ![t] = IdleThread(OkObjectId(threads[t].id))]
    /\ UNCHANGED <<allocations, free_blocks, objects_lock, compute_vars, detached_vars, module_vars, registry_vars, router_vars>>

\* faulty variant of remove_object: the entry is left in objects
remove_object_keeps_entry(t, id) ==
    /\ threads[t].pc = "idle"
    /\ objects_lock = NoThread
    /\ IF id \in DOMAIN objects
       THEN /\ objects_lock' = t
            /\ threads' = [threads EXCEPT ![t] =
                   [pc |-> "remove_deallocate", id |-> id, size |-> objects[id].size,
                    ret |-> NoArenaReturn, offset |-> objects[id].offset]]
            /\ UNCHANGED objects
       ELSE /\ threads' = [threads EXCEPT ![t] = IdleThread(OkBool(FALSE))]
            /\ UNCHANGED <<objects, objects_lock>>
    /\ UNCHANGED <<allocations, free_blocks, allocator_lock, compute_vars, detached_vars, module_vars, registry_vars, router_vars>>

\* remove_object up to the allocator lock: self.objects.write() and objects.remove(&id)
remove_object(t, id) ==
    /\ threads[t].pc = "idle"
    /\ objects_lock = NoThread
    /\ IF id \in DOMAIN objects
       THEN /\ objects' = RemoveKey(objects, id)
            /\ objects_lock' = t
            /\ threads' = [threads EXCEPT ![t] =
                   [pc |-> "remove_deallocate", id |-> id, size |-> objects[id].size,
                    ret |-> NoArenaReturn, offset |-> objects[id].offset]]
       ELSE /\ threads' = [threads EXCEPT ![t] = IdleThread(OkBool(FALSE))]
            /\ UNCHANGED <<objects, objects_lock>>
    /\ UNCHANGED <<allocations, free_blocks, allocator_lock, compute_vars, detached_vars, module_vars, registry_vars, router_vars>>

\* faulty variant of remove_deallocate: the extent is not pushed onto free_blocks
remove_deallocate_no_free(t) ==
    /\ threads[t].pc = "remove_deallocate"
    /\ allocator_lock = NoThread
    /\ IF threads[t].offset \in DOMAIN allocations
       THEN /\ allocations' = RemoveKey(allocations, threads[t].offset)
            /\ free_blocks' = coalesce_free_blocks(free_blocks)
            /\ threads' = [threads EXCEPT ![t] = IdleThread(OkBool(TRUE))]
       ELSE /\ threads' = [threads EXCEPT ![t] = IdleThread(InvalidDeallocation)]
            /\ UNCHANGED <<allocations, free_blocks>>
    /\ objects_lock' = NoThread
    /\ UNCHANGED <<objects, allocator_lock, compute_vars, detached_vars, module_vars, registry_vars, router_vars>>

\* remove_object from self.allocator.lock() and deallocate(offset, size)? to its
\* return, where both guards are dropped
remove_deallocate(t) ==
    /\ threads[t].pc = "remove_deallocate"
    /\ allocator_lock = NoThread
    /\ IF threads[t].offset \in DOMAIN allocations
       THEN /\ allocations' = RemoveKey(allocations, threads[t].offset)
            /\ free_blocks' = coalesce_free_blocks(
                   Append(free_blocks, <<threads[t].offset, threads[t].size>>))
            /\ threads' = [threads EXCEPT ![t] = IdleThread(OkBool(TRUE))]
       ELSE /\ threads' = [threads EXCEPT ![t] = IdleThread(InvalidDeallocation)]
            /\ UNCHANGED <<allocations, free_blocks>>
    /\ objects_lock' = NoThread
    /\ UNCHANGED <<objects, allocator_lock, compute_vars, detached_vars, module_vars, registry_vars, router_vars>>

\* stats up to the objects lock: self.allocator.lock()
stats(t) ==
    /\ threads[t].pc = "idle"
    /\ allocator_lock = NoThread
    /\ allocator_lock' = t
    /\ threads' = [threads EXCEPT ![t] = [IdleThread(NoArenaReturn) EXCEPT !.pc = "stats_read"]]
    /\ UNCHANGED <<allocations, free_blocks, objects, objects_lock, compute_vars, detached_vars, module_vars, registry_vars, router_vars>>

\* stats from self.objects.read() to its return, where both guards are dropped
stats_read(t) ==
    /\ threads[t].pc = "stats_read"
    /\ objects_lock = NoThread
    /\ allocator_lock' = NoThread
    /\ threads' = [threads EXCEPT ![t] =
           IdleThread(StatsReturn(ShmStats(ArenaSize, used, free,
                                           Cardinality(DOMAIN objects))))]
    /\ UNCHANGED <<allocations, free_blocks, objects, objects_lock, compute_vars, detached_vars, module_vars, registry_vars, router_vars>>

\* what get_object(id) finds in objects: None, or the entry the object is read from
get_object(id) == IF id \in DOMAIN objects THEN "Ok(Some(object))" ELSE "Ok(None)"

\* SharedArena::new and SharedAllocator::new
ArenaInit ==
    /\ allocations = EmptyMap
    /\ free_blocks = <<<<0, ArenaSize>>>>
    /\ objects = EmptyMap
    /\ allocator_lock = NoThread
    /\ objects_lock = NoThread
    /\ threads = [t \in Threads |-> IdleThread(NoArenaReturn)]


(***************************************************************************)
(* ObjectRegistry (src/core/object.rs)                                     *)
(***************************************************************************)
\* the ObjectIds of the objects handed to the registry
RegistryIds == {1, 2, 3}

\* the contents that tell two objects with one id apart
Payloads == {"a", "b"}

\* an Arc<dyn Object> with its id()
Object(id, payload) == [id |-> id, payload |-> payload]

NoObject == Object(0, "")

\* the value an ObjectRegistry method returns: ObjectId, Option<Arc<dyn Object>>
\* or bool, the fields that do not apply left at a default
RegistryReturn(kind, id, object, removed) ==
    [kind |-> kind, id |-> id, object |-> object, removed |-> removed]

NoRegistryReturn == RegistryReturn("None", 0, NoObject, FALSE)

\* ObjectRegistry::store
store(object) ==
    /\ registry' = Put(registry, object.id, object)
    /\ registry_ret' = RegistryReturn("ObjectId", object.id, NoObject, FALSE)
    /\ UNCHANGED <<compute_vars, detached_vars, module_vars, arena_vars, router_vars>>

\* ObjectRegistry::get
get(id) ==
    /\ registry_ret' = IF id \in DOMAIN registry
                       THEN RegistryReturn("Some", 0, registry[id], FALSE)
                       ELSE RegistryReturn("Option::None", 0, NoObject, FALSE)
    /\ UNCHANGED <<registry, compute_vars, detached_vars, module_vars, arena_vars, router_vars>>

\* ObjectRegistry::remove
remove(id) ==
    /\ registry' = RemoveKey(registry, id)
    /\ registry_ret' = RegistryReturn("bool", 0, NoObject, id \in DOMAIN registry)
    /\ UNCHANGED <<compute_vars, detached_vars, module_vars, arena_vars, router_vars>>

\* ObjectRegistry::new
RegistryInit ==
    /\ registry = EmptyMap
    /\ registry_ret = NoRegistryReturn

(***************************************************************************)
(* MessageQueue, MpiMessageChannel and MessageRouter (src/core/message.rs) *)
(***************************************************************************)
\* the MessageQueues one router creates
MaxQueues == 2

\* the envelopes created
MaxMessages == 2

\* the module ids in use; recipient 0 is the broadcast address
ModuleIds == {0, 1, 2}

\* the modules that send
Senders == {1, 2}

\* the ranks of the MPI world, 0..size-1
Ranks == {0, 1, 2}

\* Message::new(sender, recipient, ..) wrapped in a MessageEnvelope; id is its MessageId
Envelope(id, sender, recipient) == [id |-> id, sender |-> sender, recipient |-> recipient]

\* MessageQueue::new for the module it is handed to
MessageQueue(module_id) == [module_id |-> module_id, channel |-> <<>>]

RouteOk == "Ok"

NoRoute == "Err(Module: No route to module)"

\* MessageRouter::register_module
register_module(module_id) ==
    /\ Len(queues) < MaxQueues
    /\ queues' = Append(queues, MessageQueue(module_id))
    /\ local_queues' = Put(local_queues, module_id, Len(queues) + 1)
    /\ UNCHANGED <<mpi_channel, rank, mpi_sent, mpi_pending, received, routed, route_ret, messages,
                   compute_vars, arena_vars, registry_vars, detached_vars, module_vars>>

\* the sends of MpiMessageChannel::send_message, in order
mpi_send_message(envelope) ==
    IF envelope.recipient = 0
    THEN LET others == {r \in Ranks : r # rank}
             order == CHOOSE seq \in [1..Cardinality(others) -> others] :
                          \A i, j \in 1..Cardinality(others) : i < j => seq[i] < seq[j]
         IN  [i \in 1..Cardinality(others) |-> <<order[i], envelope>>]
    ELSE <<<<envelope.recipient, envelope>>>>

\* faulty variant of route_message: the transport is tried before the local queues
route_message_mpi_first(envelope) ==
    LET recipient == envelope.recipient
    IN  /\ IF mpi_channel
           THEN /\ mpi_sent' = mpi_sent \o mpi_send_message(envelope)
                /\ route_ret' = RouteOk
                /\ UNCHANGED <<queues, routed>>
           ELSE IF recipient \in DOMAIN local_queues
           THEN /\ queues' = [queues EXCEPT ![local_queues[recipient]].channel =
                                  Append(@, envelope)]
                /\ routed' = [routed EXCEPT ![recipient] = Append(@, envelope)]
                /\ route_ret' = RouteOk
                /\ UNCHANGED mpi_sent
           ELSE /\ route_ret' = NoRoute
                /\ UNCHANGED <<queues, routed, mpi_sent>>
        /\ UNCHANGED <<local_queues, mpi_channel, rank, received,
                       compute_vars, arena_vars, registry_vars, detached_vars>>

\* MessageRouter::route_message
route_message(envelope) ==
    LET recipient == envelope.recipient
    IN  /\ IF recipient \in DOMAIN local_queues
           THEN /\ queues' = [queues EXCEPT ![local_queues[recipient]].channel =
                                  Append(@, envelope)]
                /\ routed' = [routed EXCEPT ![recipient] = Append(@, envelope)]
                /\ route_ret' = RouteOk
                /\ UNCHANGED mpi_sent
           ELSE IF mpi_channel
           THEN /\ mpi_sent' = mpi_sent \o mpi_send_message(envelope)
                /\ route_ret' = RouteOk
                /\ UNCHANGED <<queues, routed>>
           ELSE /\ route_ret' = NoRoute
                /\ UNCHANGED <<queues, routed, mpi_sent>>
        /\ UNCHANGED <<local_queues, mpi_channel, rank, received,
                       compute_vars, arena_vars, registry_vars, detached_vars>>

\* a module builds a new message and routes it
RouteNewMessage(sender, recipient) ==
    /\ messages < MaxMessages
    /\ messages' = messages + 1
    /\ route_message(Envelope(messages + 1, sender, recipient))
    /\ UNCHANGED <<mpi_pending, module_vars>>

\* MessageQueue::receive_message returning Some(msg) to the module the queue was handed to
receive_message(q) ==
    /\ queues[q].channel # <<>>
    /\ queues' = [queues EXCEPT ![q].channel = Tail(@)]
    /\ received' = [received EXCEPT ![queues[q].module_id] = Append(@, Head(queues[q].channel))]
    /\ UNCHANGED <<local_queues, mpi_channel, rank, mpi_sent, mpi_pending, routed, route_ret, messages,
                   compute_vars, arena_vars, registry_vars, detached_vars, module_vars>>

\* another rank sends an envelope to this rank over the transport
MpiArrive(sender, recipient) ==
    /\ mpi_channel
    /\ messages < MaxMessages
    /\ messages' = messages + 1
    /\ mpi_pending' = Append(mpi_pending, Envelope(messages + 1, sender, recipient))
    /\ UNCHANGED <<local_queues, queues, rank, mpi_channel, mpi_sent, received, routed,
                   route_ret, compute_vars, arena_vars, registry_vars, detached_vars,
                   module_vars>>

\* MessageRouter::process_messages with MpiMessageChannel::receive_message taking
\* pending envelope i, any_process() naming no source; Ok(()) with nothing done
\* when there is no transport or nothing is pending
process_messages(i) ==
    /\ IF mpi_channel /\ i \in 1..Len(mpi_pending)
       THEN /\ mpi_pending' = RemoveAt(mpi_pending, i)
            /\ route_message(mpi_pending[i])
       ELSE /\ i = 0
            /\ ~mpi_channel \/ mpi_pending = <<>>
            /\ UNCHANGED router_vars
            /\ UNCHANGED <<compute_vars, arena_vars, registry_vars, detached_vars>>
    /\ UNCHANGED <<messages, module_vars>>

\* MessageRouter::new, followed by with_mpi when with_transport
RouterInit(with_transport, mpi_rank) ==
    /\ local_queues = EmptyMap
    /\ queues = <<>>
    /\ mpi_channel = with_transport
    /\ rank = mpi_rank
    /\ mpi_sent = <<>>
    /\ mpi_pending = <<>>
    /\ received = [m \in ModuleIds |-> <<>>]
    /\ routed = [m \in ModuleIds |-> <<>>]
    /\ route_ret = "None"
    /\ messages = 0

(***************************************************************************)
(* Parameter and ParameterSet (src/core/parameter.rs)                      *)
(***************************************************************************)
\* the largest number a parameter value holds
MaxValue == 3

ParameterNames == {"p", "q"}

\* enum ParameterValue: Int(v) or Bool(v), a Bool holding 0 or 1
ParameterValue(kind, v) == [kind |-> kind, v |-> v]

ParameterValues ==
    {ParameterValue("Int", v) : v \in 0..MaxValue}
      \cup {ParameterValue("Bool", v) : v \in {0, 1}}

\* Option<..> of a number
None == [some |-> FALSE, v |-> 0]

Some(v) == [some |-> TRUE, v |-> v]

\* the bounds a caller declares for a parameter: none, or [1, 2]
ParameterRanges == {<<None, None>>, <<Some(1), Some(2)>>}

\* Parameter::new(name, .., value) with the declared bounds stored in its pub
\* fields param_type, min_value and max_value
Parameter(name, value, range) ==
    [name |-> name, value |-> value,
     param_type |-> [kind |-> value.kind, min |-> range[1], max |-> range[2]],
     min_value |-> range[1], max_value |-> range[2]]

\* ParameterSet::add
add(param) ==
    /\ parameters' = Put(parameters, param.name, param)
    /\ UNCHANGED <<set_value_ret, compute_vars, arena_vars, registry_vars, router_vars,
                   graph_call_vars, module_vars, mpi_vars>>

\* ParameterSet::set_value
set_value(name, value) ==
    /\ IF name \in DOMAIN parameters
       THEN IF parameters[name].param_type.kind = value.kind
            THEN /\ parameters' = [parameters EXCEPT ![name].value = value]
                 /\ set_value_ret' = "Ok"
            ELSE /\ set_value_ret' = "Err(Type mismatch for parameter)"
                 /\ UNCHANGED parameters
       ELSE /\ set_value_ret' = "Err(Parameter not found)"
            /\ UNCHANGED parameters
    /\ UNCHANGED <<compute_vars, arena_vars, registry_vars, router_vars,
                   graph_call_vars, module_vars, mpi_vars>>

\* ParameterSet::new
ParameterInit ==
    /\ parameters = EmptyMap
    /\ set_value_ret = "None"

(***************************************************************************)
(* DistributedContext (src/mpi/mod.rs)                                     *)
(***************************************************************************)
\* MpiUniverse.size
world_size == Cardinality(Ranks)

\* the local values handed to reduce
LocalValues == {1, 2}

\* send_data[dest] of the all_to_all call of rank source
send_data(source, dest) == source * world_size + dest

\* the op argument of reduce: neither associative nor commutative
op(a, b) == 2 * a + b

\* a rank that has not yet entered the method
StartProc == [pc |-> "loop", rank |-> 0, results |-> <<>>, result |-> 0,
              ret |-> "None"]

\* all_to_all on rank r, one turn of the loop up to the receive of send_receive:
\* the own element is pushed, or send_data[rank] is sent to rank
all_to_all(r) ==
    /\ collective = "all_to_all"
    /\ procs[r].pc = "loop"
    /\ procs[r].rank < world_size
    /\ IF procs[r].rank = r
       THEN /\ procs' = [procs EXCEPT ![r].results = Append(@, send_data(r, r)),
                                       ![r].rank = @ + 1]
            /\ UNCHANGED channels
       ELSE /\ channels' = [channels EXCEPT ![<<r, procs[r].rank>>] =
                                Append(@, send_data(r, procs[r].rank))]
            /\ procs' = [procs EXCEPT ![r].pc = "receive"]
    /\ UNCHANGED <<collective, root, local_value, compute_vars, arena_vars, registry_vars,
                   router_vars, graph_call_vars, parameter_vars, module_vars>>

\* send_receive on rank r from world.receive_into, which takes the next message
\* of any source, to the push of the result
send_receive(r, source) ==
    /\ collective = "all_to_all"
    /\ procs[r].pc = "receive"
    /\ channels[<<source, r>>] # <<>>
    /\ channels' = [channels EXCEPT ![<<source, r>>] = Tail(@)]
    /\ procs' = [procs EXCEPT ![r].results = Append(@, Head(channels[<<source, r>>])),
                              ![r].rank = @ + 1,
                              ![r].pc = "loop"]
    /\ UNCHANGED <<collective, root, local_value, compute_vars, arena_vars, registry_vars,
                   router_vars, graph_call_vars, parameter_vars, module_vars>>

\* all_to_all on rank r: Ok(results)
all_to_all_return(r) ==
    /\ collective = "all_to_all"
    /\ procs[r].pc = "loop"
    /\ procs[r].rank = world_size
    /\ procs' = [procs EXCEPT ![r].pc = "done", ![r].ret = "Ok(results)"]
    /\ UNCHANGED <<collective, root, local_value, channels, compute_vars, arena_vars,
                   registry_vars, router_vars, graph_call_vars, parameter_vars, module_vars>>

\* reduce on a rank that is not the root: send_to(local_value, root), Ok(None)
reduce_send(r) ==
    /\ collective = "reduce"
    /\ r # root
    /\ procs[r].pc = "loop"
    /\ channels' = [channels EXCEPT ![<<r, root>>] = Append(@, local_value[r])]
    /\ procs' = [procs EXCEPT ![r].pc = "done", ![r].ret = "Ok(None)"]
    /\ UNCHANGED <<collective, root, local_value, compute_vars, arena_vars, registry_vars,
                   router_vars, graph_call_vars, parameter_vars, module_vars>>

\* faulty variant of reduce_receive: the root takes the next message of any source
reduce_receive_any(r) ==
    /\ collective = "reduce"
    /\ r = root
    /\ procs[r].pc = "loop"
    /\ procs[r].rank < world_size
    /\ IF procs[r].rank = root
       THEN /\ procs' = [procs EXCEPT ![r].rank = @ + 1]
            /\ UNCHANGED channels
       ELSE \E source \in Ranks :
            /\ channels[<<source, r>>] # <<>>
            /\ channels' = [channels EXCEPT ![<<source, r>>] = Tail(@)]
            /\ procs' = [procs EXCEPT
                             ![r].result = op(@, Head(channels[<<source, r>>])),
                             ![r].rank = @ + 1]
    /\ UNCHANGED <<collective, root, local_value, compute_vars, arena_vars, registry_vars,
                   router_vars, graph_call_vars, parameter_vars, module_vars>>

\* reduce on the root, one turn of the loop: receive_from(rank), which takes the
\* next message of that rank, and result = op(result, remote_value)
reduce_receive(r) ==
    /\ collective = "reduce"
    /\ r = root
    /\ procs[r].pc = "loop"
    /\ procs[r].rank < world_size
    /\ IF procs[r].rank = root
       THEN /\ procs' = [procs EXCEPT ![r].rank = @ + 1]
            /\ UNCHANGED channels
       ELSE /\ channels[<<procs[r].rank, r>>] # <<>>
            /\ channels' = [channels EXCEPT ![<<procs[r].rank, r>>] = Tail(@)]
            /\ procs' = [procs EXCEPT
                             ![r].result = op(@, Head(channels[<<procs[r].rank, r>>])),
                             ![r].rank = @ + 1]
    /\ UNCHANGED <<collective, root, local_value, compute_vars, arena_vars, registry_vars,
                   router_vars, graph_call_vars, parameter_vars, module_vars>>

\* reduce on the root: Ok(Some(result))
reduce_return(r) ==
    /\ collective = "reduce"
    /\ r = root
    /\ procs[r].pc = "loop"
    /\ procs[r].rank = world_size
    /\ procs' = [procs EXCEPT ![r].pc = "done", ![r].ret = "Ok(Some(result))"]
    /\ UNCHANGED <<collective, root, local_value, channels, compute_vars, arena_vars,
                   registry_vars, router_vars, graph_call_vars, parameter_vars, module_vars>>

\* every rank is about to call method, reduce with the given root and local values
MpiInit(method, reduce_root, values) ==
    /\ collective = method
    /\ root = reduce_root
    /\ local_value = values
    /\ channels = [pair \in Ranks \X Ranks |-> <<>>]
    /\ procs = [r \in Ranks |-> [StartProc EXCEPT !.result = values[r]]]

(***************************************************************************)
(* VistleModule (src/compute/module.rs)                                    *)
(***************************************************************************)
NoCaller == 0

\* ExecutionStats::new
ExecutionStats(objects_created, objects_processed, errors) ==
    [objects_created |-> objects_created, objects_processed |-> objects_processed,
     errors |-> errors]

\* a caller that is not in VistleModule::execute, with the result of its last call
IdleExecution(result) == [pc |-> "idle", result |-> "None", outputs |-> 0, ret |-> result]

\* self.inner.info().id
InfoId == 1

\* the number of objects in the outputs of a successful Module::compute
ComputeOutputs == {0, 1}

\* the envelope of Message::new(sender, recipient, message_type) with no payload;
\* objects_created is the field of ComputationComplete, 0 in other messages
ModuleMessage(id, sender, recipient, message_type, objects_created) ==
    [id |-> id, sender |-> sender, recipient |-> recipient,
     message_type |-> message_type, objects_created |-> objects_created]

\* VistleModule::new
ModuleInit ==
    /\ module_status = "Initializing"
    /\ module_stats = ExecutionStats(0, 0, 0)
    /\ stats_lock = NoCaller
    /\ executions = [c \in Calls |-> IdleExecution("None")]

\* execute: *self.status.write().await = ModuleStatus::Executing
execute(c) ==
    /\ executions[c].pc = "idle"
    /\ messages < MaxMessages
    /\ module_status' = "Executing"
    /\ executions' = [executions EXCEPT ![c] = [IdleExecution("None") EXCEPT !.pc = "start"]]
    /\ UNCHANGED <<module_stats, stats_lock, router_vars, compute_vars, arena_vars,
                   registry_vars, detached_vars>>

\* execute: the Execute message is built and routed to recipient 0; an Err of
\* route_message is returned by the ? operator
execute_start(c) ==
    /\ executions[c].pc = "start"
    /\ messages' = messages + 1
    /\ route_message(ModuleMessage(messages + 1, InfoId, 0, "Execute", 0))
    /\ executions' = [executions EXCEPT ![c] =
                         IF route_ret' = RouteOk
                         THEN [@ EXCEPT !.pc = "compute"]
                         ELSE IdleExecution(route_ret')]
    /\ UNCHANGED <<module_status, module_stats, stats_lock, mpi_pending>>

\* execute: let result = self.inner.compute(ctx).await
execute_compute(c) ==
    /\ executions[c].pc = "compute"
    /\ \/ \E outputs \in ComputeOutputs :
             executions' = [executions EXCEPT ![c].pc = "stats", ![c].result = "Ok",
                                              ![c].outputs = outputs]
       \/ executions' = [executions EXCEPT ![c].pc = "stats", ![c].result = "Err"]
    /\ UNCHANGED <<module_status, module_stats, stats_lock, router_vars, compute_vars,
                   arena_vars, registry_vars, detached_vars>>

\* execute from self.stats.write().await to the end of the match on result
execute_stats(c) ==
    /\ executions[c].pc = "stats"
    /\ stats_lock = NoCaller
    /\ stats_lock' = c
    /\ IF executions[c].result = "Ok"
       THEN /\ module_stats' = [module_stats EXCEPT
                                   !.objects_processed = @ + 1,
                                   !.objects_created = @ + executions[c].outputs]
            /\ module_status' = "Completed"
       ELSE /\ module_stats' = [module_stats EXCEPT !.errors = @ + 1]
            /\ module_status' = "Error"
    /\ executions' = [executions EXCEPT ![c].pc = "complete"]
    /\ UNCHANGED <<router_vars, compute_vars, arena_vars, registry_vars, detached_vars>>

\* execute from the completion message to the return, where the stats guard drops:
\* the message is a ComputationComplete with stats.objects_created whatever result is
execute_complete(c) ==
    /\ executions[c].pc = "complete"
    /\ stats_lock = c
    /\ messages' = messages + 1
    /\ route_message(ModuleMessage(messages + 1, InfoId, 0, "ComputationComplete",
                                   module_stats.objects_created))
    /\ executions' = [executions EXCEPT ![c] =
                         IF route_ret' # RouteOk THEN IdleExecution(route_ret')
                         ELSE IF executions[c].result = "Ok" THEN IdleExecution("Ok(())")
                         ELSE IdleExecution("Err(compute)")]
    /\ stats_lock' = NoCaller
    /\ UNCHANGED <<module_status, module_stats, mpi_pending>>

(***************************************************************************)
(* Specifications                                                          *)
(***************************************************************************)
\* the core of the program as src/main.rs builds it
CoreInit == ArenaInit /\ RegistryInit /\ RouterInit(TRUE, 0) /\ GraphCallInit /\ ModuleInit
              /\ ParameterInit /\ MpiInit("reduce", 0, [r \in Ranks |-> 1])

ComputeInit ==
    /\ max_concurrent \in 1..MaxPermits
    /\ tasks = EmptyMap
    /\ completed = {}
    /\ ready_queue = <<>>
    /\ permits = max_concurrent
    /\ results = EmptyMap
    /\ next_id = 0
    /\ workers = <<>>
    /\ active_workflows = EmptyMap
    /\ pc = [c \in Calls |-> "idle"]
    /\ spec = [c \in Calls |-> NoSpec]
    /\ timeout_duration = [c \in Calls |-> "None"]
    /\ build_i = [c \in Calls |-> 1]
    /\ task_map = [c \in Calls |-> EmptyMap]
    /\ task_dependencies = [c \in Calls |-> EmptyMap]
    /\ handles = [c \in Calls |-> <<>>]
    /\ ret = [c \in Calls |-> NoReturn]
    /\ adds = 0

Init == ComputeInit /\ CoreInit

\* the steps of the executor's own tasks: scheduler loop and workers
ExecutorStep(c) ==
    \/ AcquirePermit(c)
    \/ SpawnWorker(c)
    \/ BreakLoop(c)
    \/ \E w \in 1..Len(workers) : WorkerGetTask(w)
    \/ \E w \in 1..Len(workers) : WorkerStoreResult(w)
    \/ \E w \in 1..Len(workers) : WorkerMarkCompleted(w)
    \/ \E w \in 1..Len(workers) : WorkerReleasePermit(w)

WorkflowStep(c) ==
    \/ BuildTask(c)
    \/ BuildFails(c)
    \/ BuildDependencies(c)
    \/ JoinWorkflow(c)
    \/ Finish(c)

\* one execute_workflow call on a fresh WorkflowExecutor, with cancel_workflow
\* calls and the timeout racing it
Next ==
    \/ pc[1] = "idle" /\ \E s \in WorkflowSpecs, t \in {"None", "Some"} : execute_workflow(1, s, t)
    \/ ExecutorStep(1)
    \/ WorkflowStep(1)
    \/ Timeout(1)
    \/ \E id \in WorkflowIds : cancel_workflow(id)

Spec == Init /\ [][Next]_vars

\* the runtime runs every runnable task: the caller's future and the workers
FairSpec == Spec /\ WF_vars(ExecutorStep(1)) /\ WF_vars(WorkflowStep(1))

\* every caller makes one execute_workflow call on the same WorkflowExecutor,
\* at the same time or one after another
NextShared ==
    \E c \in Calls :
        \/ pc[c] = "idle" /\ \E s \in SharedSpecs : execute_workflow(c, s, "None")
        \/ ExecutorStep(c)
        \/ WorkflowStep(c)

InitShared == Init /\ max_concurrent = 1

SpecShared == InitShared /\ [][NextShared]_vars

\* a TaskExecutor used directly: add_task calls and one execute_all call
NextExec ==
    \/ \E id \in 0..MaxTaskId, deps \in SeqsUpTo(0..MaxTaskId, MaxDeps),
          priority \in InputPriorities : DirectAddTask(id, deps, priority)
    \/ DirectExecuteAll(1)
    \/ ExecutorStep(1)
    \/ JoinDirect(1)

SpecExec == Init /\ [][NextExec]_vars

\* threads calling the methods of one SharedArena
NextArena ==
    \/ \E t \in Threads, id \in ObjectIds, data_len \in DataLens : store_object(t, id, data_len)
    \/ \E t \in Threads : store_insert(t)
    \/ \E t \in Threads, id \in ObjectIds : remove_object(t, id)
    \/ \E t \in Threads : remove_deallocate(t)
    \/ \E t \in Threads : stats(t)
    \/ \E t \in Threads : stats_read(t)

InitArena == Init /\ max_concurrent = 1

SpecArena == InitArena /\ [][NextArena]_vars

\* callers of one ObjectRegistry
NextRegistry ==
    \/ \E id \in RegistryIds, payload \in Payloads : store(Object(id, payload))
    \/ \E id \in RegistryIds : get(id)
    \/ \E id \in RegistryIds : remove(id)

SpecRegistry == InitArena /\ [][NextRegistry]_vars

\* one MessageRouter, with or without the transport, on rank 1
InitRouter ==
    /\ ComputeInit /\ max_concurrent = 1
    /\ ArenaInit
    /\ RegistryInit
    /\ GraphCallInit
    /\ ModuleInit
    /\ ParameterInit
    /\ MpiInit("reduce", 0, [r \in Ranks |-> 1])
    /\ \E with_transport \in BOOLEAN : RouterInit(with_transport, 1)

\* modules registering, routing and receiving on one MessageRouter
NextRouter ==
    \/ \E module_id \in ModuleIds : register_module(module_id)
    \/ \E sender \in Senders, recipient \in ModuleIds : RouteNewMessage(sender, recipient)
    \/ \E q \in 1..Len(queues) : receive_message(q)

SpecRouter == InitRouter /\ [][NextRouter]_vars

\* a router whose transport delivers envelopes of other ranks
NextTransport ==
    \/ \E module_id \in ModuleIds : register_module(module_id)
    \/ \E sender \in Senders, recipient \in ModuleIds : MpiArrive(sender, recipient)
    \/ \E i \in 0..Len(mpi_pending) : process_messages(i)
    \/ \E q \in 1..Len(queues) : receive_message(q)

SpecTransport == InitRouter /\ [][NextTransport]_vars

\* one TaskGraph and a caller of its methods
InitGraph == Init /\ max_concurrent = 1

\* any sequence of add_task, mark_completed and get_ready_task
NextGraph ==
    \/ \E id \in GraphIds, deps \in GraphLinks, dependents \in GraphLinks :
          GraphAddTask(GraphTask(id, deps, dependents))
    \/ \E task_id \in GraphIds : GraphMarkCompleted(task_id)
    \/ GraphGetReadyTask

SpecGraph == InitGraph /\ [][NextGraph]_vars

\* a module's ParameterSet and a caller of add and set_value
NextParameters ==
    \/ \E name \in ParameterNames, value \in ParameterValues, range \in ParameterRanges :
          add(Parameter(name, value, range))
    \/ \E name \in ParameterNames, value \in ParameterValues : set_value(name, value)

SpecParameters == InitGraph /\ [][NextParameters]_vars

\* a module of one router, with or without a transport
InitModule ==
    /\ ComputeInit /\ max_concurrent = 1
    /\ ArenaInit
    /\ RegistryInit
    /\ GraphCallInit
    /\ ModuleInit
    /\ ParameterInit
    /\ MpiInit("reduce", 0, [r \in Ranks |-> 1])
    /\ \E with_transport \in BOOLEAN : RouterInit(with_transport, 1)

\* callers of VistleModule::execute next to the users of the router
NextModule ==
    \/ \E module_id \in ModuleIds : register_module(module_id)
    \/ \E q \in 1..Len(queues) : receive_message(q)
    \/ \E c \in Calls : execute(c)
    \/ \E c \in Calls : execute_start(c)
    \/ \E c \in Calls : execute_compute(c)
    \/ \E c \in Calls : execute_stats(c)
    \/ \E c \in Calls : execute_complete(c)

SpecModule == InitModule /\ [][NextModule]_vars

\* every rank calls all_to_all, or every rank calls reduce with one root
InitMpi ==
    /\ ComputeInit /\ max_concurrent = 1
    /\ ArenaInit
    /\ RegistryInit
    /\ RouterInit(TRUE, 0)
    /\ GraphCallInit
    /\ ModuleInit
    /\ ParameterInit
    /\ \/ MpiInit("all_to_all", 0, [r \in Ranks |-> 1])
       \/ \E reduce_root \in Ranks, values \in [Ranks -> LocalValues] :
             MpiInit("reduce", reduce_root, values)

\* the ranks of one MPI world running the collective
NextMpi ==
    \/ \E r \in Ranks : all_to_all(r)
    \/ \E r \in Ranks, source \in Ranks : send_receive(r, source)
    \/ \E r \in Ranks : all_to_all_return(r)
    \/ \E r \in Ranks : reduce_send(r)
    \/ \E r \in Ranks : reduce_receive(r)
    \/ \E r \in Ranks : reduce_return(r)

SpecMpi == InitMpi /\ [][NextMpi]_vars

(***************************************************************************)
(* Vocabulary of the properties                                            *)
(***************************************************************************)
\* the nodes reachable from the set S along the edges E
RECURSIVE Reach(_, _)
Reach(E, S) ==
    LET next == S \cup {e[2] : e \in {x \in E : x[1] \in S}}
    IN IF next = S THEN S ELSE Reach(E, next)

HasCycle(E) == \E e \in E : e[1] \in Reach(E, {e[2]})

\* <<module, dependency>> for every entry of a dependencies list of the spec
SpecEdges(s) ==
    UNION {{<<s.modules[i].id, d>> : d \in Range(s.modules[i].dependencies)} :
             i \in 1..Len(s.modules)}

\* <<task, dependency>> for every entry of a dependencies list of the graph
TaskEdges ==
    UNION {{<<t, d>> : d \in Range(tasks[t].dependencies)} : t \in DOMAIN tasks}

UniqueIds(s) ==
    \A i, j \in 1..Len(s.modules) : s.modules[i].id = s.modules[j].id => i = j

DependenciesExist(s) == \A e \in SpecEdges(s) : e[2] \in SpecIds(s)

EndpointsExist(s) ==
    \A i \in 1..Len(s.connections) :
        /\ s.connections[i].from_module \in SpecIds(s)
        /\ s.connections[i].to_module \in SpecIds(s)

ValidSpec(s) ==
    /\ UniqueIds(s)
    /\ DependenciesExist(s)
    /\ EndpointsExist(s)
    /\ ~HasCycle(SpecEdges(s))

AllModulesSucceed(s) ==
    \A i \in 1..Len(s.modules) : ComputeSucceeds(s.modules[i].module_type)

\* caller c has called execute_workflow
Called(c) == spec[c] # NoSpec

\* the tasks built by caller c
BuiltTasks(c) == DOMAIN task_dependencies[c]

\* a worker has been spawned for the task
Started(t) == \E w \in 1..Len(workers) : workers[w].task_id = t

StatusOf(c) == active_workflows[spec[c].id].status

(***************************************************************************)
(* Properties                                                              *)
(***************************************************************************)
\* C1: during execute_all on an executor created with max_concurrent = N,
\* the number of workers that have been spawned and have not yet released
\* their permit is at most N.
C1_BoundedConcurrency == Cardinality(LiveWorkers) <= max_concurrent

\* N workers are live, the loop waits for a permit and a task is still queued
C1_Witness ==
    /\ Cardinality(LiveWorkers) = max_concurrent
    /\ pc[1] = "acquire"
    /\ permits = 0
    /\ ready_queue # <<>>

\* C2: in a workflow, the task of a module starts only after the TaskResult
\* of the task of each module it depends on has been recorded.
C2_DependenciesFirst ==
    Called(1) /\ ValidSpec(spec[1]) =>
        \A t \in BuiltTasks(1) :
            Started(t) =>
                \A d \in Range(task_dependencies[1][t]) :
                    d \in DOMAIN task_map[1] /\ task_map[1][d] \in DOMAIN results

\* C3: execute_workflow on an acyclic workflow whose modules all succeed
\* (no timeout given) eventually returns a WorkflowResult, and a returned
\* WorkflowResult holds exactly one successful result for each built task,
\* one task per ModuleSpec.
C3_AllResultsReturned ==
    /\ [](pc[1] = "ok" /\ ~HasCycle(SpecEdges(spec[1])) /\ AllModulesSucceed(spec[1]) =>
            /\ ret[1].kind = "Ok"
            /\ Len(ret[1].task_results) = Len(spec[1].modules)
            /\ {ret[1].task_results[i].task_id : i \in 1..Len(ret[1].task_results)}
                 = BuiltTasks(1)
            /\ Cardinality(BuiltTasks(1)) = Len(spec[1].modules)
            /\ \A i \in 1..Len(ret[1].task_results) : ret[1].task_results[i].success)
    /\ (pc[1] = "build" /\ ~HasCycle(SpecEdges(spec[1])) /\ AllModulesSucceed(spec[1])
          /\ timeout_duration[1] = "None")
         ~> (pc[1] = "ok")

\* the chain 1 -> 2 -> 3 has returned its three results
C3_Witness ==
    /\ pc[1] = "ok"
    /\ spec[1] = ChainSpec
    /\ Len(ret[1].task_results) = 3

\* C4: when the compute of a module fails, the tasks of the modules that
\* depend on it never start, and the returned workflow is failed.
C4_FailureStopsDependents ==
    Called(1) /\ ValidSpec(spec[1]) =>
        /\ \A t \in BuiltTasks(1) :
              \A d \in Range(task_dependencies[1][t]) :
                  /\ d \in DOMAIN task_map[1]
                  /\ ~ComputeSucceeds(tasks[task_map[1][d]].module)
                  => ~Started(t) /\ t \notin completed
        /\ pc[1] = "ok" /\ ~AllModulesSucceed(spec[1]) =>
              ~ret[1].success /\ StatusOf(1) \in {"Failed", "Cancelled"}

\* C5: when the timeout fires, the workflow's status becomes failed.
C5_TimeoutFailsWorkflow ==
    ret[1] = Err("Workflow execution timeout") => StatusOf(1) = "Failed"

\* C6: once cancel_workflow has set the status to cancelled, no task of the
\* workflow that has not started yet is started.
C6_NoStartAfterCancel ==
    [][Called(1) /\ StatusOf(1) = "Cancelled" => Len(workers') = Len(workers)]_vars

\* C7: cancel_workflow on a workflow whose status is terminal changes nothing.
C7_CancelTerminalNoOp ==
    [][\A id \in WorkflowIds :
          /\ id \in DOMAIN active_workflows
          /\ active_workflows[id].status \in TerminalStatuses
          /\ cancel_workflow(id)
          => active_workflows' = active_workflows]_vars

\* C8: at the step where execute_workflow returns a WorkflowResult, success
\* is true iff every task result is successful, and the recorded status is
\* completed when success is true and failed otherwise.
C8_ResultMatchesStatus ==
    [][pc[1] = "process" /\ pc'[1] = "ok" =>
          /\ ret'[1].kind = "Ok"
          /\ ret'[1].success
               <=> (\A i \in 1..Len(ret'[1].task_results) : ret'[1].task_results[i].success)
          /\ ret'[1].success => active_workflows'[spec[1].id].status = "Completed"
          /\ ~ret'[1].success => active_workflows'[spec[1].id].status = "Failed"]_vars

\* a WorkflowResult with two results has been returned and the status is completed
C8_Witness ==
    /\ pc[1] = "ok"
    /\ ret[1].success
    /\ Len(ret[1].task_results) >= 2
    /\ StatusOf(1) = "Completed"

\* C9: execute_workflow rejects an invalid WorkflowSpec (duplicate ids, a
\* dependency or connection endpoint naming no module, a cycle) before any
\* task is built or run.
C9_InvalidSpecRejected ==
    Called(1) /\ ~ValidSpec(spec[1]) => DOMAIN tasks = {} /\ workers = <<>>

\* C10: a task graph that contains a dependency cycle never reaches
\* execute_all, add_task having rejected the task that closes the cycle.
C10_NoCycleExecuted ==
    pc[1] \in ExecPcs => ~HasCycle(TaskEdges)

\* C11: add_task rejects a task whose id the graph already holds: such a
\* call neither replaces the stored task nor enqueues the id again.
C11_DuplicateIdRejected ==
    [][\A id \in 0..MaxTaskId :
          (id \in DOMAIN tasks
             /\ \E deps \in SeqsUpTo(0..MaxTaskId, MaxDeps), priority \in InputPriorities :
                   DirectAddTask(id, deps, priority))
          => tasks' = tasks /\ ready_queue' = ready_queue]_vars

\* the position of the first task of the highest priority in a queue
FirstBest(queue) ==
    CHOOSE i \in 1..Len(queue) :
        /\ \A j \in 1..Len(queue) :
              TaskPriority[tasks[queue[j]].priority] <= TaskPriority[tasks[queue[i]].priority]
        /\ \A j \in 1..(i - 1) :
              TaskPriority[tasks[queue[j]].priority] < TaskPriority[tasks[queue[i]].priority]

\* C12: the task the scheduler pops is one of the highest priority among
\* the ready tasks, and the earliest enqueued of those.
C12_HighestPriorityFirst ==
    [][Len(workers') > Len(workers) =>
          workers'[Len(workers')].task_id = ready_queue[FirstBest(ready_queue)]]_vars

\* the sum of the sizes of a Vec of blocks
RECURSIVE SumBlocks(_)
SumBlocks(blocks) ==
    IF blocks = <<>> THEN 0 ELSE blocks[1][2] + SumBlocks(Tail(blocks))

\* byte b of the arena lies in the extent that starts at offset and has length extent
InExtent(b, offset, extent) == offset <= b /\ b < offset + extent

\* the number of live allocations and free blocks that hold byte b
Holders(b) ==
    Cardinality({o \in DOMAIN allocations : InExtent(b, o, allocations[o])})
      + Cardinality({i \in 1..Len(free_blocks) :
                        InExtent(b, free_blocks[i][1], free_blocks[i][2])})

\* C13: the live allocations and the free blocks are pairwise disjoint and
\* cover exactly [0, capacity): every byte of the arena lies in exactly one
\* of them, none reaches beyond the arena, and the allocated sizes plus the
\* free sizes sum to the capacity.
C13_ArenaPartition ==
    /\ \A b \in 0..(ArenaSize - 1) : Holders(b) = 1
    /\ \A o \in DOMAIN allocations : o >= 0 /\ allocations[o] > 0 /\ o + allocations[o] <= ArenaSize
    /\ \A i \in 1..Len(free_blocks) :
          /\ free_blocks[i][1] >= 0
          /\ free_blocks[i][2] > 0
          /\ free_blocks[i][1] + free_blocks[i][2] <= ArenaSize
    /\ used + SumBlocks(free_blocks) = ArenaSize

\* a removal has returned, leaving a hole: two free blocks around live allocations
C13_Witness ==
    /\ \E t \in Threads : threads[t].ret = OkBool(TRUE)
    /\ Len(free_blocks) >= 2
    /\ Cardinality(DOMAIN allocations) >= 2

\* C14: no two free blocks are adjacent: no free block ends at the offset
\* where another one starts.
C14_FreeBlocksCoalesced ==
    \A i, j \in 1..Len(free_blocks) :
        free_blocks[i][1] + free_blocks[i][2] # free_blocks[j][1]

\* a removal has returned and its block was merged with its free neighbours
\* while another allocation is live
C14_Witness ==
    /\ \E t \in Threads : threads[t].ret = OkBool(TRUE)
    /\ Len(free_blocks) = 1
    /\ free_blocks[1][2] >= 2
    /\ allocations # EmptyMap

\* C15: store_object fails for want of memory exactly when no free block
\* has at least the length of the serialized object, and a failed call
\* leaves allocations, free_blocks and objects as they were.
C15_OutOfMemoryExact ==
    [][\A t \in Threads, id \in ObjectIds, data_len \in DataLens :
          store_object(t, id, data_len) =>
              /\ threads'[t].ret = InsufficientSpace
                   <=> ~(\E i \in 1..Len(free_blocks) : free_blocks[i][2] >= data_len)
              /\ threads'[t].ret = InsufficientSpace
                   => UNCHANGED <<allocations, free_blocks, objects>>]_vars

\* store_object has failed although the arena has free bytes in two blocks
C15_Witness ==
    /\ \E t \in Threads : threads[t].ret = InsufficientSpace
    /\ Len(free_blocks) >= 2

\* two threads each hold one lock of the arena and wait for the other one
Deadlocked ==
    \E t1, t2 \in Threads :
        /\ allocator_lock = t1
        /\ threads[t1].pc \in {"store_insert", "stats_read"}
        /\ objects_lock = t2
        /\ threads[t2].pc = "remove_deallocate"

\* C16: store_object, remove_object and stats take the allocator lock
\* before the objects lock (a thread that holds the objects lock holds the
\* allocator lock too), and so they never deadlock.
C16_LockOrderNoDeadlock ==
    /\ \A t \in Threads : objects_lock = t => allocator_lock = t
    /\ ~Deadlocked

\* the threads of the arena never deadlock
NoDeadlock == ~Deadlocked

\* C17: the registry is single-insertion: store(x) of an id the registry does
\* not hold maps x.id to x, and store of an id it already holds fails with
\* AlreadyExists and leaves the id mapped to the first object.
C17_SingleInsertion ==
    [][\A id \in RegistryIds, payload \in Payloads :
          store(Object(id, payload)) =>
              IF id \in DOMAIN registry
              THEN registry' = registry /\ registry_ret'.kind = "Err(AlreadyExists)"
              ELSE registry'[id] = Object(id, payload)]_vars

\* C18: route_message fails with no route, delivering to no queue and
\* sending nothing, exactly when the recipient is not locally registered and
\* no transport is attached (recipient 0 included); otherwise it returns Ok
\* and the envelope is appended to the recipient's local queue or, when the
\* recipient is not local, handed to the transport.
C18_NoRouteExact ==
    [][\A sender \in Senders, recipient \in ModuleIds :
          LET envelope == Envelope(messages + 1, sender, recipient)
              local == recipient \in DOMAIN local_queues
          IN  route_message(envelope) =>
                  /\ route_ret' = NoRoute <=> (~local /\ ~mpi_channel)
                  /\ route_ret' = NoRoute => UNCHANGED <<queues, mpi_sent>>
                  /\ route_ret' # NoRoute =>
                        /\ route_ret' = RouteOk
                        /\ IF local
                           THEN /\ queues'[local_queues[recipient]].channel
                                     = Append(queues[local_queues[recipient]].channel, envelope)
                                /\ mpi_sent' = mpi_sent
                           ELSE /\ queues' = queues
                                /\ \E r \in Ranks : <<r, envelope>> \in Range(mpi_sent')]_vars

\* route_message has failed with no route on a router that has a module
\* registered and no transport
C18_Witness ==
    /\ route_ret = NoRoute
    /\ ~mpi_channel
    /\ local_queues # EmptyMap
    /\ messages >= 1

\* C19: with a transport attached, route_message of an envelope with
\* recipient 0 sends it to every rank other than this one and also appends
\* it to every local queue of this rank.
C19_BroadcastEverywhere ==
    [][\A sender \in Senders :
          LET envelope == Envelope(messages + 1, sender, 0)
          IN  (mpi_channel /\ route_message(envelope)) =>
                  /\ \A r \in Ranks \ {rank} : <<r, envelope>> \in Range(mpi_sent')
                  /\ \A m \in DOMAIN local_queues :
                        envelope \in Range(queues'[local_queues[m]].channel)]_vars

\* the envelopes of a sequence that come from one sender, in order
SenderView(envelopes, sender) == SelectSeq(envelopes, LAMBDA e : e.sender = sender)

\* C20: for every locally registered recipient and every sender, the
\* envelopes the recipient has received followed by those waiting in its
\* registered queue are exactly the envelopes route_message sent to the
\* recipient, in send order: none lost, none twice, none out of order.
C20_LosslessFifo ==
    \A m \in DOMAIN local_queues, sender \in Senders :
        SenderView(received[m], sender) \o SenderView(queues[local_queues[m]].channel, sender)
          = SenderView(routed[m], sender)

\* C25: every task in the ready queue has all its dependencies in the
\* completion set.
C25_ReadyHasDependenciesCompleted ==
    \A i \in 1..Len(ready_queue) :
        ready_queue[i] \in DOMAIN tasks
          => dependencies_satisfied(tasks[ready_queue[i]], completed)

\* a sequence holds no element twice
NoDuplicates(seq) == \A i, j \in 1..Len(seq) : seq[i] = seq[j] => i = j

\* C26: each task id is enqueued into the ready queue at most once: the ids
\* popped so far together with the ids still queued hold no id twice.
C26_EnqueuedAtMostOnce == NoDuplicates(popped \o ready_queue)

\* C27: mark_completed(t) of an id not yet completed inserts t into the
\* completion set and leaves in the ready queue every task that was added
\* with t among its dependencies and whose dependencies are now all completed.
C27_DependentsBecomeReady ==
    [][\A t \in GraphIds :
          (t \notin completed /\ GraphMarkCompleted(t)) =>
              /\ t \in completed'
              /\ \A d \in DOMAIN tasks :
                    (t \in Range(tasks[d].dependencies)
                       /\ dependencies_satisfied(tasks[d], completed'))
                    => d \in Range(ready_queue')]_vars

\* C28: execute_all leaves its scheduling loop only when the ready queue is
\* empty and no spawned task is still running.
C28_LoopExitsWhenIdle ==
    [][pc[1] = "pop" /\ pc'[1] = "join" => ready_queue = <<>> /\ LiveWorkers = {}]_vars

\* C29: mark_completed of an id that is already in the completion set
\* changes neither the completion set nor the ready queue nor the tasks.
C29_MarkCompletedIdempotent ==
    [][\A t \in GraphIds :
          (t \in completed /\ GraphMarkCompleted(t))
          => UNCHANGED <<completed, ready_queue, tasks>>]_vars

\* an id was marked completed twice while one of its dependents, with all its
\* dependencies completed, was not in the ready queue
C29_Witness ==
    \E i, j \in 1..Len(marked) :
        /\ i < j
        /\ marked[i] = marked[j]
        /\ marked[i] \in DOMAIN tasks
        /\ \E k \in 1..Len(tasks[marked[i]].dependents) :
              LET d == tasks[marked[i]].dependents[k]
              IN  /\ d \in DOMAIN tasks
                  /\ dependencies_satisfied(tasks[d], completed)
                  /\ d \notin Range(ready_queue)
                  /\ d \in Range(popped)

\* the free blocks that can hold requested bytes
FittingBlocks(requested) == {i \in 1..Len(free_blocks) : free_blocks[i][2] >= requested}

\* C30: allocation is first-fit in offset order: an allocation of n bytes
\* made by store_object returns the lowest offset among the free blocks of
\* length >= n, and the remainder of the chosen block stays free.
C30_FirstFitLowestOffset ==
    [][\A t \in Threads, id \in ObjectIds, data_len \in DataLens :
          (FittingBlocks(data_len) # {} /\ store_object(t, id, data_len)) =>
              /\ \A i \in FittingBlocks(data_len) : threads'[t].offset <= free_blocks[i][1]
              /\ \A i \in FittingBlocks(data_len) :
                    (free_blocks[i][1] = threads'[t].offset /\ free_blocks[i][2] > data_len)
                    => <<threads'[t].offset + data_len, free_blocks[i][2] - data_len>>
                         \in Range(free_blocks')]_vars

\* value lies outside the bounds declared for the parameter
OutOfRange(param, value) ==
    \/ param.min_value.some /\ value.v < param.min_value.v
    \/ param.max_value.some /\ value.v > param.max_value.v

\* C22: set_value on an existing parameter fails with a type mismatch when
\* the kind of the value differs from the declared kind, and with an
\* out-of-range error when the value lies outside [min, max]; on either
\* failure the stored value is unchanged.
C22_SetValueValidates ==
    [][\A name \in ParameterNames, value \in ParameterValues :
          (name \in DOMAIN parameters /\ set_value(name, value)) =>
              /\ parameters[name].param_type.kind # value.kind
                   => /\ set_value_ret' = "Err(Type mismatch for parameter)"
                      /\ parameters' = parameters
              /\ (parameters[name].param_type.kind = value.kind
                    /\ OutOfRange(parameters[name], value))
                   => /\ set_value_ret' = "Err(Out of range)"
                      /\ parameters' = parameters]_vars

\* C23: when all_to_all has returned on rank i, its result at index j is
\* the value rank j placed in its send_data[i], for all ranks i and j.
C23_AllToAllTransposes ==
    \A i \in Ranks :
        (collective = "all_to_all" /\ procs[i].pc = "done")
        => \A j \in Ranks : procs[i].results[j + 1] = send_data(j, i)

\* the fold of the local values of the ranks from..size-1 other than the
\* root, in rank order, onto acc
RECURSIVE FoldRanks(_, _)
FoldRanks(acc, from) ==
    IF from >= world_size THEN acc
    ELSE FoldRanks(IF from = root THEN acc ELSE op(acc, local_value[from]), from + 1)

\* C24: in reduce a rank other than the root has sent its local value to
\* the root when it returns, and returns no result; the root returns the
\* left-to-right fold under op of the root's value followed by the other
\* values in rank order, whatever the order in which the messages arrived.
C24_ReduceFixedOrder ==
    collective = "reduce" =>
        /\ \A r \in Ranks \ {root} :
              procs[r].pc = "done" =>
                  /\ procs[r].ret = "Ok(None)"
                  /\ \/ channels[<<r, root>>] = <<local_value[r]>>
                     \/ channels[<<r, root>>] = <<>> /\ procs[root].rank > r
        /\ procs[root].pc = "done" =>
              /\ procs[root].ret = "Ok(Some(result))"
              /\ procs[root].result = FoldRanks(local_value[root], 0)

\* the root has returned the fold of three values of which the two remote
\* ones differ, so that their order shows in the result
C24_Witness ==
    /\ collective = "reduce"
    /\ procs[root].pc = "done"
    /\ \E r1, r2 \in Ranks \ {root} : local_value[r1] # local_value[r2]

\* the envelopes the router has passed on, to a local queue or to the transport
Sent ==
    UNION {Range(routed[r]) : r \in DOMAIN routed}
        \cup {mpi_sent[i][2] : i \in 1..Len(mpi_sent)}

\* C21: the end of an execution sends exactly one message: a
\* ComputationComplete with the objects that execution created when compute
\* succeeded, an Error (and no ComputationComplete) when compute failed.
C21_CompletionMessage ==
    [][\A c \in Calls :
          (executions[c].pc = "complete" /\ executions'[c].pc = "idle"
              /\ route_ret' = RouteOk)
          => /\ Cardinality(Sent' \ Sent) = 1
             /\ \A e \in Sent' \ Sent :
                   IF executions[c].result = "Ok"
                   THEN /\ e.message_type = "ComputationComplete"
                        /\ e.objects_created = executions[c].outputs
                   ELSE e.message_type = "Error"]_vars

\* C31: every entry of objects has the offset of a live allocation, and the
\* size of that allocation; ids stored a second time included.
C31_EntriesAreLive ==
    \A id \in DOMAIN objects :
        /\ objects[id].offset \in DOMAIN allocations
        /\ allocations[objects[id].offset] = objects[id].size

\* an id was stored twice: its entry was replaced, and there are more live
\* allocations than entries
C31_Witness ==
    /\ \A t \in Threads : threads[t].pc = "idle"
    /\ objects # EmptyMap
    /\ Cardinality(DOMAIN allocations) > Cardinality(DOMAIN objects)

\* byte b of the arena lies in a free block
IsFree(b) == \E i \in 1..Len(free_blocks) : InExtent(b, free_blocks[i][1], free_blocks[i][2])

\* C32: remove_object of a stored id drops the entry and returns true
\* with the recorded extent free again and get_object finding nothing;
\* remove_object of an id that is not stored returns false and leaves
\* allocations, free_blocks and objects as they were.
C32_RemoveObject ==
    [][/\ \A t \in Threads, id \in ObjectIds :
             remove_object(t, id) =>
                 IF id \in DOMAIN objects
                 THEN get_object(id)' = "Ok(None)"
                 ELSE /\ threads'[t].ret = OkBool(FALSE)
                      /\ UNCHANGED <<allocations, free_blocks, objects>>
       /\ \A t \in Threads :
             remove_deallocate(t) =>
                 /\ threads'[t].ret = OkBool(TRUE)
                 /\ get_object(threads[t].id)' = "Ok(None)"
                 /\ threads[t].offset \notin DOMAIN allocations'
                 /\ \A b \in 0..(ArenaSize - 1) :
                       InExtent(b, threads[t].offset, threads[t].size) => IsFree(b)']_vars

\* one removal has returned true and another one false
C32_Witness ==
    \E t1, t2 \in Threads :
        /\ threads[t1].ret = OkBool(TRUE)
        /\ threads[t2].ret = OkBool(FALSE)

\* C35: when no call is under way every live allocation is the extent of
\* exactly one entry of objects, so that an arena with no entries is one
\* free block covering [0, capacity).
C35_AllocationsReferencedOnce ==
    (\A t \in Threads : threads[t].pc = "idle") =>
        /\ \A o \in DOMAIN allocations :
              Cardinality({id \in DOMAIN objects : objects[id].offset = o}) = 1
        /\ objects = EmptyMap => free_blocks = <<<<0, ArenaSize>>>>

\* C33: when process_messages returns, no envelope that was pending at its
\* start is still pending, and each one has been sent to a local queue.
C33_ProcessMessagesDrains ==
    [][\A i \in 0..Len(mpi_pending) :
          process_messages(i) =>
              /\ mpi_pending' = <<>>
              /\ \A j \in 1..Len(mpi_pending) :
                    \E k \in 1..Len(routed'[mpi_pending[j].recipient]) :
                        routed'[mpi_pending[j].recipient][k] = mpi_pending[j]]_vars

\* C39: process_messages makes no send on the transport: an envelope it
\* received is never handed back to other ranks, whatever its recipient.
C39_NoResend ==
    [][\A i \in 0..Len(mpi_pending) : process_messages(i) => mpi_sent' = mpi_sent]_vars

\* the moves of ModuleStatus the state machine allows
StatusMoves ==
    {<<"Initializing", "Ready">>, <<"Ready", "Executing">>}
        \cup ({"Executing"} \X {"Completed", "Error", "Cancelled"})

\* the callers whose execute is at the call of Module::compute
Computing == {c \in Calls : executions[c].pc = "compute"}

\* C34: the status of a module instance changes only along initializing ->
\* ready -> executing -> {completed, error, cancelled}; execute does not
\* start on an instance whose status is executing, and at most one caller
\* is in compute at any time.
C34_StatusMachine ==
    [][/\ module_status' # module_status => <<module_status, module_status'>> \in StatusMoves
       /\ \A c \in Calls : execute(c) => module_status # "Executing"
       /\ Cardinality(Computing') <= 1]_vars

\* C40: whenever a call of execute returns, the status of the module is
\* completed or error, whether it returns the result of compute or an error
\* of route_message.
C40_ExecuteEndsTerminal ==
    [][\A c \in Calls :
          (executions[c].pc # "idle" /\ executions'[c].pc = "idle")
          => module_status' \in {"Completed", "Error"}]_vars

\* C36: the WorkflowResult an execute_workflow call returns holds the
\* results of the tasks built from its own spec and of no other task,
\* exactly one for each module of that spec.
C36_OwnResultsOnly ==
    \A c \in Calls :
        ret[c].kind = "Ok" =>
            /\ {ret[c].task_results[i].task_id : i \in 1..Len(ret[c].task_results)}
                   = BuiltTasks(c)
            /\ Len(ret[c].task_results) = Len(spec[c].modules)

\* C37: once execute_workflow has returned, with a WorkflowResult or with
\* an error, the recorded status of its workflow is completed, failed or
\* cancelled.
C37_ReturnedIsTerminal ==
    \A c \in Calls : ret[c].kind \in {"Ok", "Err"} => StatusOf(c) \in TerminalStatuses

\* C38: when execute_workflow finishes for a workflow whose status is
\* cancelled, the status stays cancelled.
C38_CancelledAbsorbing ==
    [][\A c \in Calls :
          (Finish(c) /\ StatusOf(c) = "Cancelled") => StatusOf(c)' = "Cancelled"]_vars
====
